---- MODULE Spec2Model ----
(***************************************************************************)
(* A model of the PythonBots simulation engine: pythonbots/bot.py (Handler *)
(* and Bot), pythonbots/arena.py (Shot and Arena), pythonbots/vector.py    *)
(* (Vector) and the round loop of main.py.                                 *)
(*                                                                         *)
(* Numbers.  The program computes with floats.  The model computes with    *)
(* integers: lengths in arena units, angles in eighths of a turn           *)
(* (TAU = 8), and every product with a fraction (friction, cos, sin, a     *)
(* unit vector) rounded to the nearest integer.  Comparisons of a distance *)
(* with a constant are made on the squares, so they are exact.  The scan   *)
(* compares angles in 1/128 of a turn.                                     *)
(*                                                                         *)
(* pythonbots/constants.py is not part of the sources at hand: the         *)
(* constants and the helper functions imported from it are modelled from   *)
(* the specification (names kept, values chosen small).                    *)
(***************************************************************************)
EXTENDS Integers, Sequences, FiniteSets, TLC

VARIABLES
    bots,             \* Arena.bots: sequence of Bot records (spawn order)
    shots,            \* Arena.shots: sequence of Shot records
    ticks,            \* Arena.ticks
    bot_index_count,  \* bot.py module-level counter
    pc,               \* control position in main's loop / Arena.update
    cur,              \* position in Arena.update's "for b in self.bots"
    calls,            \* handler calls made so far by the strategies on this arena
    created,          \* history: Shot objects created per robot this round
    struck,           \* history: <<victim, owner>> low-health hits of this tick
    killed0,          \* history: the kill lists at the start of this tick
    turnCmd,          \* history: per robot, the single turn command being drained
    upd,              \* history: the last Bot.update (what it drained, the walls)
    scanned,          \* what the running strategy's last scan() returned
    hits,             \* history: the projectile hits of this tick, in order
    order,            \* history: the Bot.update calls of this tick, in order
    pairs,            \* history: the robot pairs resolved in this tick, in order
    died,             \* history: die() calls per robot this round
    fresh,            \* history: the Shot objects created in this tick
    last_health,      \* bot/bigodines.py: the module global last_health
    iso               \* history: what a store per robot and round would hold

vars == <<bots, shots, ticks, bot_index_count, pc, cur, calls,
          created, struck, killed0, turnCmd, upd, scanned, hits, order, pairs,
          died, fresh, last_health, iso>>

----------------------------------------------------------------------------
(* Bounds of the model *)

\* Handler calls the strategies may make on one arena, all robots and all
\* of its rounds together.
MaxCalls == 2

\* Largest square root Sqrt looks for (its square fits a 32-bit integer).
MaxRoot == 40000

----------------------------------------------------------------------------
(* pythonbots/constants.py (modelled from the specification) *)

PI == 4
TAU == 8
RADIUS == 10
ARENA_WIDTH == 60
ARENA_HEIGHT == 40
VISION_RANGE == 30
MAX_TIME == 3
MAX_HEALTH == 2
NORMAL_TEMPERATURE == 2
DANGEROUS_TEMPERATURE == 6
MAX_TEMPERATURE == 7
TEMPERATURE_DAMAGE == 1
COOLING_RATE == 2
MAX_ACCELERATION == 4
MAX_TURN_RATE == 2
MAX_CANNON_TURN_RATE == 3
MIN_SCAN_ARC == 2
SHOT_SPEED == 8
SHOT_DAMAGE == 2
SHOT_COLLISION_HEAT == 3
HEAT_PER_SHOT == 4

\* Fractions are pairs <<numerator, denominator>>.
FRICTION == <<3, 4>>
ANGULAR_FRICTION == <<1, 2>>
EXPLOSION_IMPACT == <<1, 2>>
SHOT_IMPACT_VEL == <<1, 10>>
SHOT_IMPACT_ANG == <<1, 8>>

\* Literals of bot.py and arena.py.
DEAD_FRICTION == <<4, 5>>
DEAD_ANGULAR_FRICTION == <<9, 10>>
SHOT_SPAWN_FACTOR == <<11, 10>>

----------------------------------------------------------------------------
(* Arithmetic *)

Abs(a) == IF a >= 0 THEN a ELSE -a

Sgn(a) == IF a > 0 THEN 1 ELSE IF a < 0 THEN -1 ELSE 0

Min(a, b) == IF a <= b THEN a ELSE b

Max(a, b) == IF a >= b THEN a ELSE b

\* a / b rounded to the nearest integer (b > 0), halves away from zero.
RDiv(a, b) == IF a >= 0 THEN (2 * a + b) \div (2 * b)
              ELSE -((2 * (-a) + b) \div (2 * b))

\* a * f for a fraction f.
Frac(a, f) == RDiv(a * f[1], f[2])

\* math.sqrt, rounded down, by bisection of lo..hi.
RECURSIVE SqrtIter(_, _, _)
SqrtIter(n, lo, hi) ==
    IF lo >= hi THEN lo
    ELSE LET mid == (lo + hi + 1) \div 2
         IN  IF mid * mid <= n THEN SqrtIter(n, mid, hi)
             ELSE SqrtIter(n, lo, mid - 1)

Sqrt(n) == SqrtIter(n, 0, MaxRoot)

\* math.cos and math.sin of an angle in eighths of a turn, times 1000.
CosTable == <<1000, 707, 0, -707, -1000, -707, 0, 707>>

Cos1000(a) == CosTable[(a % TAU) + 1]

Sin1000(a) == CosTable[((a - 2) % TAU) + 1]

\* minabs(a, b): the value of magnitude min(|a|, b) with the sign of a.
minabs(a, b) == Sgn(a) * Min(Abs(a), b)

\* The damage and heat curves: increasing functions of a speed, which is
\* given in hundredths of a unit (see VLength).
wall_collision_damage(speed) == speed \div 400

wall_collision_heat(speed) == speed \div 200

bot_collision_damage(speed) == speed \div 400

bot_collision_heat(speed) == speed \div 200

velocity_heat(speed) == speed \div 400

----------------------------------------------------------------------------
(* pythonbots/vector.py *)

Vector(a, b) == [x |-> a, y |-> b]

VAdd(u, v) == Vector(u.x + v.x, u.y + v.y)

VSub(u, v) == Vector(u.x - v.x, u.y - v.y)

\* Vector * fraction
VFrac(u, f) == Vector(Frac(u.x, f), Frac(u.y, f))

VDot(u, v) == u.x * v.x + u.y * v.y

\* Vector.length(), in hundredths of a unit.
VLength(u) == Sqrt(VDot(u, u) * 10000)

\* Vector.unit(), times 1000; the zero vector for a zero-length vector.
VUnit(u) ==
    LET l == VLength(u)
    IN  IF l = 0 THEN Vector(0, 0)
        ELSE Vector(RDiv(u.x * 100000, l), RDiv(u.y * 100000, l))

\* A projection that returns the whole of the projected vector.
VProjectionWhole(u, v) == u

\* Vector.projection(vector): k = dot / length, then k * vector.unit().
\* Only called with a vector of non-zero length.
VProjection(u, v) ==
    LET k == RDiv(VDot(u, v) * 10000, VLength(v))
    IN  Vector(RDiv(k * VUnit(v).x, 100000), RDiv(k * VUnit(v).y, 100000))

\* Vector(cos(a), sin(a)) * m
VPolar(a, m) == Vector(RDiv(Cos1000(a) * m, 1000), RDiv(Sin1000(a) * m, 1000))

----------------------------------------------------------------------------
(* pythonbots/bot.py: class Bot *)

\* The strategies handed to Arena(functions): one robot per entry.
Functions == <<"f0", "f1", "f2">>

NumBots == Len(Functions)

\* "No robot": the value of killed_by before a kill, (Python's None).
None == -1

\* What random.uniform draws at a spawn: a position inside the walls, a
\* heading and an angular velocity in [0, TAU].
SpawnA == [position |-> Vector(RADIUS, 20), direction |-> 2, angular_velocity |-> 1]

SpawnB == [position |-> Vector(25, 20), direction |-> 4, angular_velocity |-> 0]

SpawnD == [position |-> Vector(25, 20), direction |-> 0, angular_velocity |-> 0]

SpawnC == [position |-> Vector(44, ARENA_HEIGHT - RADIUS), direction |-> 2,
           angular_velocity |-> 0]

\* The draws of one Arena.start, robot by robot.
Spawns ==
    { <<SpawnB, SpawnA, SpawnC>>,
      <<SpawnA, SpawnB, SpawnC>>,
      <<SpawnB, SpawnB, SpawnA>>,
      <<SpawnB, SpawnA, SpawnA>>,
      <<SpawnD, SpawnA, SpawnC>> }

\* What random.uniform(-PI / 2, PI / 2) draws at a death.
DeathSpins == {-1, 1}

\* Bot.__init__: the robot created with the next free index at spawn sp.
NewBot(idx, sp) ==
    [ index                |-> idx,
      position             |-> sp.position,
      direction            |-> sp.direction,
      angular_velocity     |-> sp.angular_velocity,
      velocity             |-> Vector(0, 0),
      cannon               |-> 0,
      scan_arc             |-> MIN_SCAN_ARC,
      angular_acceleration |-> 0,
      cannon_acceleration  |-> 0,
      acceleration         |-> 0,
      target_arc           |-> MIN_SCAN_ARC,
      health               |-> MAX_HEALTH,
      temperature          |-> NORMAL_TEMPERATURE,
      active               |-> TRUE,
      has_shot             |-> FALSE,
      shots                |-> 0,
      killed               |-> << >>,
      killed_by            |-> None ]

\* Bot.update, lines 278-285: position, heading, friction, a corpse's cannon.
Integrate(b) ==
    LET av == Frac(b.angular_velocity,
                   IF b.active THEN ANGULAR_FRICTION ELSE DEAD_ANGULAR_FRICTION)
    IN  [b EXCEPT
            !.position = VAdd(b.position, b.velocity),
            !.velocity = VFrac(b.velocity, IF b.active THEN FRICTION ELSE DEAD_FRICTION),
            !.direction = b.direction + b.angular_velocity,
            !.angular_velocity = av,
            !.cannon = IF b.active THEN b.cannon ELSE b.cannon + av * 2]

\* DrainAcceleration with the full rate, not the applied amount, taken off
\* the accumulator.
DrainAccelerationFullRate(b) ==
    [b EXCEPT
        !.velocity = VAdd(b.velocity,
                          VPolar(b.direction, minabs(b.acceleration, MAX_ACCELERATION))),
        !.acceleration = b.acceleration - Sgn(b.acceleration) * MAX_ACCELERATION]

\* Bot.update, lines 288-291: the acceleration accumulator.
DrainAcceleration(b) ==
    [b EXCEPT
        !.velocity = VAdd(b.velocity,
                          VPolar(b.direction, minabs(b.acceleration, MAX_ACCELERATION))),
        !.acceleration = b.acceleration - minabs(b.acceleration, MAX_ACCELERATION)]

\* DrainTurn that clamps the command and discards the rest.
DrainTurnDiscard(b) ==
    [b EXCEPT
        !.angular_velocity = b.angular_velocity
                             + minabs(b.angular_acceleration, MAX_TURN_RATE),
        !.angular_acceleration = 0]

\* Bot.update, lines 293-294: the turn accumulator.
DrainTurn(b) ==
    [b EXCEPT
        !.angular_velocity = b.angular_velocity
                             + minabs(b.angular_acceleration, MAX_TURN_RATE),
        !.angular_acceleration = b.angular_acceleration
                                 - minabs(b.angular_acceleration, MAX_TURN_RATE)]

\* Bot.update, lines 296-297: the cannon accumulator.
DrainCannon(b) ==
    [b EXCEPT
        !.cannon = b.cannon + minabs(b.cannon_acceleration, MAX_CANNON_TURN_RATE),
        !.cannon_acceleration = b.cannon_acceleration
                                - minabs(b.cannon_acceleration, MAX_CANNON_TURN_RATE)]

\* Bot.update, line 299.
ApplyArc(b) == [b EXCEPT !.scan_arc = b.target_arc]

\* DeathCheck without "and self.active", flipping the flag.
DeathCheckToggle(b, spin) ==
    IF b.health <= 0
    THEN [b EXCEPT
            !.active = ~b.active,
            !.health = 0,
            !.velocity = VFrac(b.velocity, EXPLOSION_IMPACT),
            !.angular_velocity = spin,
            !.temperature = MAX_TEMPERATURE]
    ELSE b

\* DeathCheck that leaves the robot active.
DeathCheckStaysActive(b, spin) ==
    IF b.health <= 0 /\ b.active
    THEN [b EXCEPT
            !.health = 0,
            !.velocity = VFrac(b.velocity, EXPLOSION_IMPACT),
            !.angular_velocity = spin,
            !.temperature = MAX_TEMPERATURE]
    ELSE b

\* DeathCheck that waits for the health to fall below 0.
DeathCheckBelowZero(b, spin) ==
    IF b.health < 0 /\ b.active
    THEN [b EXCEPT
            !.active = FALSE,
            !.health = 0,
            !.velocity = VFrac(b.velocity, EXPLOSION_IMPACT),
            !.angular_velocity = spin,
            !.temperature = MAX_TEMPERATURE]
    ELSE b

\* Bot.update, lines 302-310: the death check, spin being the random draw.
DeathCheck(b, spin) ==
    IF b.health <= 0 /\ b.active
    THEN [b EXCEPT
            !.active = FALSE,
            !.health = 0,
            !.velocity = VFrac(b.velocity, EXPLOSION_IMPACT),
            !.angular_velocity = spin,
            !.temperature = MAX_TEMPERATURE]
    ELSE b

\* Bot.update, lines 313-321: overheating damage, cooling, heat of movement.
Thermal(b) ==
    LET h  == IF b.temperature >= DANGEROUS_TEMPERATURE /\ b.active
              THEN b.health - TEMPERATURE_DAMAGE ELSE b.health
        t1 == IF b.temperature > NORMAL_TEMPERATURE
              THEN b.temperature - COOLING_RATE ELSE b.temperature
        t2 == t1 + velocity_heat(VLength(b.velocity))
    IN  [b EXCEPT !.health = h, !.temperature = Min(t2, MAX_TEMPERATURE)]

\* Bot.update, lines 324-329: handle_wall().
HandleWall(b) ==
    [b EXCEPT
        !.health = b.health - wall_collision_damage(VLength(b.velocity)),
        !.temperature = b.temperature + wall_collision_heat(VLength(b.velocity))]

\* WallX without the assignments to position.x.
WallXNoClamp(b) ==
    IF b.position.x < RADIUS \/ b.position.x > ARENA_WIDTH - RADIUS
    THEN [HandleWall(b) EXCEPT !.velocity.x = b.velocity.x * (-1)]
    ELSE b

\* Bot.update, lines 331-338: the walls of the x axis.
WallX(b) ==
    IF b.position.x < RADIUS
    THEN [HandleWall(b) EXCEPT !.position.x = RADIUS,
                               !.velocity.x = b.velocity.x * (-1)]
    ELSE IF b.position.x > ARENA_WIDTH - RADIUS
    THEN [HandleWall(b) EXCEPT !.position.x = ARENA_WIDTH - RADIUS,
                               !.velocity.x = b.velocity.x * (-1)]
    ELSE b

\* Bot.update, lines 340-347: the walls of the y axis.
WallY(b) ==
    IF b.position.y < RADIUS
    THEN [HandleWall(b) EXCEPT !.position.y = RADIUS,
                               !.velocity.y = b.velocity.y * (-1)]
    ELSE IF b.position.y > ARENA_HEIGHT - RADIUS
    THEN [HandleWall(b) EXCEPT !.position.y = ARENA_HEIGHT - RADIUS,
                               !.velocity.y = b.velocity.y * (-1)]
    ELSE b

\* Bot.update, lines 278-321: everything before the walls.
BeforeWalls(b, spin) ==
    Thermal(DeathCheck(ApplyArc(DrainCannon(DrainTurn(
        DrainAcceleration(Integrate(b))))), spin))

\* Bot.update, lines 278-347: everything before the strategy is called.
Physics(b, spin) == WallY(WallX(BeforeWalls(b, spin)))

\* Invokes that is true of a corpse too.
InvokesAlways(b) == TRUE

\* Bot.update, line 350: "if self.active", the strategy is called.
Invokes(b) == b.active

\* ClampArc without the upper limit.
ClampArcNoUpper(arc) == Max(arc, MIN_SCAN_ARC)

\* Bot.update, line 354.
ClampArc(arc) == Max(Min(arc, TAU), MIN_SCAN_ARC)

\* Bot.update, lines 353-356: after the strategy has returned.
AfterFunc(b) == [b EXCEPT !.target_arc = ClampArc(b.target_arc),
                          !.has_shot = FALSE]

----------------------------------------------------------------------------
(* pythonbots/arena.py: class Shot *)

\* Shot.__init__: fired by robot b along heading + cannon.
Shot(b) ==
    [ bot      |-> b.index,
      velocity |-> VPolar(b.direction + b.cannon, SHOT_SPEED),
      position |-> VAdd(b.position,
                        VPolar(b.direction + b.cannon, Frac(RADIUS, SHOT_SPAWN_FACTOR))) ]

\* Arena.update, lines 169-171: the shot has left the arena rectangle.
OutOfArena(s) ==
    \/ ~(0 <= s.position.x /\ s.position.x <= ARENA_WIDTH)
    \/ ~(0 <= s.position.y /\ s.position.y <= ARENA_HEIGHT)

\* Shot.update
ShotUpdate(s) == [s EXCEPT !.position = VAdd(s.position, s.velocity)]

\* MoveShots that moves a shot first and tests it afterwards.
RECURSIVE MoveShotsThenTest(_)
MoveShotsThenTest(ss) ==
    IF ss = << >> THEN << >>
    ELSE IF OutOfArena(ShotUpdate(Head(ss))) THEN MoveShotsThenTest(Tail(ss))
    ELSE <<ShotUpdate(Head(ss))>> \o MoveShotsThenTest(Tail(ss))

\* Arena.update, lines 168-175: shots outside are removed, the others move.
RECURSIVE MoveShots(_)
MoveShots(ss) ==
    IF ss = << >> THEN << >>
    ELSE IF OutOfArena(Head(ss)) THEN MoveShots(Tail(ss))
    ELSE <<ShotUpdate(Head(ss))>> \o MoveShots(Tail(ss))

----------------------------------------------------------------------------
(* pythonbots/arena.py: class Arena *)

\* Arena.alive_count
alive_count(bs) == Cardinality({i \in DOMAIN bs : bs[i].active})

\* Separation that moves each robot by the whole penetration depth.
SeparationFull(collision_vec) ==
    LET u == VUnit(collision_vec)
    IN  VSub(Vector(RDiv(u.x * (RADIUS * 2), 1000),
                    RDiv(u.y * (RADIUS * 2), 1000)), collision_vec)

\* Arena.update, lines 193-195: r / 2.0, what b.position gains and
\* c.position loses.
Separation(collision_vec) ==
    LET u == VUnit(collision_vec)
        r == VSub(Vector(RDiv(u.x * (RADIUS * 2), 1000),
                         RDiv(u.y * (RADIUS * 2), 1000)), collision_vec)
    IN  Vector(RDiv(r.x, 2), RDiv(r.y, 2))

\* Arena.update, lines 182-184: "distance != 0.0 and distance <= RADIUS * 2"
\* for the robots b and c.
Collides(b, c) ==
    LET collision_vec == VSub(b.position, c.position)
        d2 == VDot(collision_vec, collision_vec)
    IN  d2 # 0 /\ d2 <= (RADIUS * 2) * (RADIUS * 2)

\* Arena.update, lines 183-211: robots i (b) and j (c) of bs, if they touch.
CollidePair(bs, i, j) ==
    LET b == bs[i]
        c == bs[j]
        collision_vec == VSub(b.position, c.position)
    IN  IF Collides(b, c)
        THEN LET trans_b == VProjection(b.velocity, collision_vec)
                 trans_c == VProjection(c.velocity, collision_vec)
                 r2 == Separation(collision_vec)
                 bv == VAdd(b.velocity, VSub(trans_c, trans_b))
                 cv == VAdd(c.velocity, VSub(trans_b, trans_c))
                 bw == b.angular_velocity - c.angular_velocity * 2
                 cw == c.angular_velocity - bw * 2
                 damage == bot_collision_damage(VLength(VSub(bv, cv)))
                 heat == bot_collision_heat(VLength(VSub(bv, cv)))
             IN  [bs EXCEPT
                    ![i] = [b EXCEPT
                              !.position = VAdd(b.position, r2),
                              !.velocity = bv,
                              !.angular_velocity = bw,
                              !.health = IF b.active THEN b.health - damage
                                         ELSE b.health,
                              !.temperature = b.temperature + heat],
                    ![j] = [c EXCEPT
                              !.position = VSub(c.position, r2),
                              !.velocity = cv,
                              !.angular_velocity = cw,
                              !.health = IF c.active THEN c.health - damage
                                         ELSE c.health,
                              !.temperature = c.temperature + heat]]
        ELSE bs

\* Arena.update, lines 180-211: "for c in self.bots", from position j on.
RECURSIVE CollideAll(_, _, _)
CollideAll(bs, i, j) ==
    IF j > Len(bs) THEN bs
    ELSE CollideAll(IF j = i THEN bs ELSE CollidePair(bs, i, j), i, j + 1)

\* History: the resolution of the pair b = robot i, c = robot j, bs being
\* the robots before it and bs2 after it.
PairRecord(bs, bs2, i, j) ==
    [ b |-> i, c |-> j,
      before |-> <<bs[i], bs[j]>>,
      after  |-> <<bs2[i], bs2[j]>> ]

\* History: the pairs that CollideAll(bs, i, j) resolves, appended to log.
RECURSIVE CollideLog(_, _, _, _)
CollideLog(bs, i, j, log) ==
    IF j > Len(bs) THEN log
    ELSE IF j = i THEN CollideLog(bs, i, j + 1, log)
    ELSE CollideLog(CollidePair(bs, i, j), i, j + 1,
                    IF Collides(bs[i], bs[j])
                    THEN Append(log, PairRecord(bs, CollidePair(bs, i, j), i, j))
                    ELSE log)

\* Arena.update, line 215: shot s touches robot b.
Touches(s, b) ==
    VDot(VSub(s.position, b.position), VSub(s.position, b.position)) < RADIUS * RADIUS

\* HitBot without a corpse branch: every robot hit is treated as a live one.
HitBotNoCorpse(bs, i, s) ==
    LET b  == bs[i]
        h  == b.health - SHOT_DAMAGE
        b1 == [b EXCEPT
                 !.health = h,
                 !.temperature = b.temperature + SHOT_COLLISION_HEAT,
                 !.velocity = VAdd(b.velocity, VFrac(s.velocity, SHOT_IMPACT_VEL))]
    IN  IF h <= 0
        THEN LET bs1 == [bs EXCEPT ![i] = [b1 EXCEPT !.killed_by = s.bot]]
             IN  [bs1 EXCEPT ![s.bot + 1].killed = Append(@, b.index)]
        ELSE [bs EXCEPT ![i] = b1]

\* Arena.update, lines 216-229: shot s hits robot i of bs.
HitBot(bs, i, s) ==
    LET b  == bs[i]
        h  == IF b.active THEN b.health - SHOT_DAMAGE ELSE b.health
        b1 == [b EXCEPT
                 !.health = h,
                 !.temperature = b.temperature + SHOT_COLLISION_HEAT,
                 !.velocity = VAdd(b.velocity, VFrac(s.velocity, SHOT_IMPACT_VEL))]
    IN  IF ~b.active
        THEN [bs EXCEPT ![i] =
                [b1 EXCEPT !.angular_velocity =
                    b.angular_velocity
                    + RDiv(Frac(VLength(s.velocity), SHOT_IMPACT_ANG), 100)]]
        ELSE IF h <= 0
        THEN LET bs1 == [bs EXCEPT ![i] = [b1 EXCEPT !.killed_by = s.bot]]
             IN  [bs1 EXCEPT ![s.bot + 1].killed = Append(@, b.index)]
        ELSE [bs EXCEPT ![i] = b1]

\* History: what the hit of shot s on robot i did, bs being the robots
\* before it and bs2 after it.
HitRecord(bs, bs2, i, s) ==
    [ victim |-> i,
      shot   |-> s,
      owner  |-> s.bot + 1,
      speed  |-> VLength(s.velocity),
      before |-> bs[i],
      after  |-> bs2[i],
      kills0 |-> bs[s.bot + 1].killed,
      kills1 |-> bs2[s.bot + 1].killed ]

\* History: the hit is one the kill scenario is about (an active robot with
\* 0 < health <= SHOT_DAMAGE).
LowHit(b) == b.active /\ 0 < b.health /\ b.health <= SHOT_DAMAGE

\* HitAll that leaves a shot that has hit a robot in the arena.
RECURSIVE HitAllKeepsShot(_, _, _)
HitAllKeepsShot(st, todo, i) ==
    IF todo = << >> THEN st
    ELSE LET s == Head(todo)
         IN  IF Touches(s, st.bots[i])
             THEN HitAllKeepsShot([bots   |-> HitBot(st.bots, i, s),
                                   shots  |-> Append(st.shots, s),
                                   struck |-> st.struck,
                                   hits   |-> Append(st.hits,
                                                     HitRecord(st.bots,
                                                               HitBot(st.bots, i, s),
                                                               i, s))],
                                  Tail(todo), i)
             ELSE HitAllKeepsShot([st EXCEPT !.shots = Append(@, s)], Tail(todo), i)

\* Arena.update, lines 213-231: "for shot in list(self.shots)" for robot i.
\* st = [bots, shots (those still in the arena), struck, hits].
RECURSIVE HitAll(_, _, _)
HitAll(st, todo, i) ==
    IF todo = << >> THEN st
    ELSE LET s == Head(todo)
         IN  IF Touches(s, st.bots[i])
             THEN HitAll([bots   |-> HitBot(st.bots, i, s),
                          shots  |-> st.shots,
                          struck |-> IF LowHit(st.bots[i])
                                     THEN st.struck \cup {<<i, s.bot + 1>>}
                                     ELSE st.struck,
                          hits   |-> Append(st.hits,
                                            HitRecord(st.bots, HitBot(st.bots, i, s),
                                                      i, s))],
                         Tail(todo), i)
             ELSE HitAll([st EXCEPT !.shots = Append(@, s)], Tail(todo), i)

----------------------------------------------------------------------------
(* pythonbots/arena.py: Arena.scan *)

\* Half a turn in the unit scan() measures angles in: a 1/128 of a turn.
FINE_PI == 64

\* 1000 * cos(n * PI / FINE_PI) for n = 0 .. FINE_PI
CosFine ==
    << 1000, 999, 995, 989, 981, 970, 957, 942, 924, 904, 882, 858, 831, 803,
       773, 741, 707, 672, 634, 596, 556, 514, 471, 428, 383, 337, 290, 243,
       195, 147, 98, 49, 0, -49, -98, -147, -195, -243, -290, -337, -383, -428,
       -471, -514, -556, -596, -634, -672, -707, -741, -773, -803, -831, -858,
       -882, -904, -924, -942, -957, -970, -981, -989, -995, -999, -1000 >>

\* math.acos of c / 1000: the first angle of lo..hi whose cosine is <= c
\* (by bisection; the cosine of hi is <= c).
RECURSIVE AcosIter(_, _, _)
AcosIter(c, lo, hi) ==
    IF lo >= hi THEN hi
    ELSE LET mid == (lo + hi) \div 2
         IN  IF CosFine[mid + 1] <= c THEN AcosIter(c, lo, mid)
             ELSE AcosIter(c, mid + 1, hi)

Acos(c) == AcosIter(c, 0, FINE_PI)

\* math.atan2(y, x) for y > 0 and x >= 0.
Atan2(y, x) == Acos(RDiv(x * 1000, Sqrt(x * x + y * y)))

\* The value that stands for a raised ZeroDivisionError.
Fault == -1

\* Vector.angle(vector), self being a unit vector given times 1000:
\* acos(dot / (self.length() * vector.length())), a division by zero for a
\* vector of length zero.
VAngle(u, v) ==
    IF VLength(v) = 0 THEN Fault
    ELSE Acos(RDiv(VDot(u, v) * 100, VLength(v)))

\* NoTarget with the outer limit of detection as its distance.
NoTargetOuter ==
    [fault |-> FALSE, near2 |-> VISION_RANGE * VISION_RANGE,
     distance |-> (VISION_RANGE + RADIUS) * 100, index |-> -1]

\* Arena.scan, lines 130-131: what scan starts from.
NoTarget == [fault |-> FALSE, near2 |-> VISION_RANGE * VISION_RANGE,
             distance |-> VISION_RANGE * 100, index |-> -1]

\* ScanFrom with "distance <= nearest".
RECURSIVE ScanFromInclusive(_, _, _, _)
ScanFromInclusive(bs, i, j, acc) ==
    IF j > Len(bs) \/ acc.fault THEN acc
    ELSE LET me    == bs[i]
             other == bs[j]
             d2    == VDot(VSub(me.position, other.position),
                           VSub(me.position, other.position))
             dlen  == VLength(VSub(me.position, other.position))
         IN  IF j = i \/ ~other.active THEN ScanFromInclusive(bs, i, j + 1, acc)
             ELSE IF d2 <= (VISION_RANGE + RADIUS) * (VISION_RANGE + RADIUS)
                     /\ d2 <= acc.near2
             THEN LET cannon_vec == Vector(Cos1000(me.direction + me.cannon),
                                          Sin1000(me.direction + me.cannon))
                      target_vec == VSub(other.position, me.position)
                      angle      == VAngle(cannon_vec, target_vec)
                      max_angle  == (RDiv(me.scan_arc * FINE_PI, 2 * PI)
                                     + Atan2(RADIUS * 100, dlen)) % FINE_PI
                  IN  IF angle = Fault THEN [acc EXCEPT !.fault = TRUE]
                      ELSE IF angle <= max_angle
                      THEN ScanFromInclusive(bs, i, j + 1,
                                    [fault |-> FALSE, near2 |-> d2,
                                     distance |-> dlen, index |-> other.index])
                      ELSE ScanFromInclusive(bs, i, j + 1, acc)
             ELSE ScanFromInclusive(bs, i, j + 1, acc)

\* Arena.scan, lines 132-155: "for other in self.bots", from position j on,
\* for the robot at position i.  acc holds nearest (as a length in hundredths
\* and as a square) and found_index.
RECURSIVE ScanFrom(_, _, _, _)
ScanFrom(bs, i, j, acc) ==
    IF j > Len(bs) \/ acc.fault THEN acc
    ELSE LET me    == bs[i]
             other == bs[j]
             d2    == VDot(VSub(me.position, other.position),
                           VSub(me.position, other.position))
             dlen  == VLength(VSub(me.position, other.position))
         IN  IF j = i \/ ~other.active THEN ScanFrom(bs, i, j + 1, acc)
             ELSE IF d2 <= (VISION_RANGE + RADIUS) * (VISION_RANGE + RADIUS)
                     /\ d2 < acc.near2
             THEN LET cannon_vec == Vector(Cos1000(me.direction + me.cannon),
                                          Sin1000(me.direction + me.cannon))
                      target_vec == VSub(other.position, me.position)
                      angle      == VAngle(cannon_vec, target_vec)
                      max_angle  == (RDiv(me.scan_arc * FINE_PI, 2 * PI)
                                     + Atan2(RADIUS * 100, dlen)) % FINE_PI
                  IN  IF angle = Fault THEN [acc EXCEPT !.fault = TRUE]
                      ELSE IF angle <= max_angle
                      THEN ScanFrom(bs, i, j + 1,
                                    [fault |-> FALSE, near2 |-> d2,
                                     distance |-> dlen, index |-> other.index])
                      ELSE ScanFrom(bs, i, j + 1, acc)
             ELSE ScanFrom(bs, i, j + 1, acc)

\* Arena.scan(bot_instance) for the robot at position i of bs.
scan(bs, i) == ScanFrom(bs, i, 1, NoTarget)

----------------------------------------------------------------------------
(* What the strategies may pass to the handler *)

AccelArgs == {MAX_ACCELERATION + 2}

TurnArgs == {MAX_TURN_RATE + 1}

CannonArgs == {-(MAX_CANNON_TURN_RATE + 1)}

ArcArgs == {0, TAU + 1}

----------------------------------------------------------------------------
(* History variables *)

NoTurn == [a |-> 0, k |-> 0, sum |-> 0, last |-> 0]

NoUpdate == [i |-> 0]

NoScan == [i |-> 0]

\* Nothing invoked yet; a store per robot and round starts with the value
\* the module gives last_health when it is loaded.
NoIso == [i |-> 0, store |-> [k \in 1..NumBots |-> 0]]

\* A turn command issued on an empty accumulator starts a record; a further
\* command while one is pending ends it.
TurnIssued(b, angle) ==
    IF b.angular_acceleration = 0
    THEN [a |-> angle, k |-> 0, sum |-> 0, last |-> 0]
    ELSE NoTurn

\* One Bot.update, which applied the amount w, seen by the record t of a
\* robot whose accumulator held p before it.
TurnDrained(t, p, w) ==
    IF t.a = 0 \/ p = 0 THEN t
    ELSE [t EXCEPT !.k = t.k + 1, !.sum = t.sum + w, !.last = w]

\* One Bot.update of robot i: b5 is the robot as the death check finds it,
\* b7 the robot at the end of the physics.  dies counts the die() call.
UpdateRecord(i, b5, spin, b7) ==
    [ i       |-> i,
      active  |-> b7.active,
      invoked |-> Invokes(b7),
      due     |-> b5.active /\ b5.health <= 0,
      dies    |-> IF DeathCheck(b5, spin) # b5 THEN 1 ELSE 0,
      dead    |-> <<DeathCheck(b5, spin).active, DeathCheck(b5, spin).health,
                    DeathCheck(b5, spin).temperature>> ]

----------------------------------------------------------------------------
(* The state machine *)

Init ==
    /\ bots = << >>
    /\ shots = << >>
    /\ ticks = 0
    /\ bot_index_count = 0
    /\ pc = "idle"
    /\ cur = 0
    /\ calls = 0
    /\ created = << >>
    /\ struck = {}
    /\ killed0 = << >>
    /\ turnCmd = << >>
    /\ upd = NoUpdate
    /\ scanned = NoScan
    /\ hits = << >>
    /\ order = << >>
    /\ pairs = << >>
    /\ died = << >>
    /\ fresh = {}
    /\ last_health = 0
    /\ iso = NoIso

\* StartCount that leaves bot.py's counter where the last round left it.
StartCountKept == bot_index_count

\* Arena.start, line 106: the value start() gives bot.py's counter.
StartCount == 0

\* Start that leaves the projectiles of the round before in the arena.
StartKeepsShots ==
    /\ pc \in {"idle", "over"}
    /\ \E sp \in Spawns :
          bots' = [i \in 1..NumBots |-> NewBot(StartCount + (i - 1), sp[i])]
    /\ ticks' = 0
    /\ bot_index_count' = StartCount + NumBots
    /\ pc' = "loop"
    /\ cur' = 0
    /\ UNCHANGED <<calls, shots>>
    /\ created' = [i \in 1..NumBots |-> 0]
    /\ struck' = {}
    /\ killed0' = [i \in 1..NumBots |-> << >>]
    /\ turnCmd' = [i \in 1..NumBots |-> NoTurn]
    /\ upd' = NoUpdate
    /\ scanned' = NoScan
    /\ hits' = << >>
    /\ order' = << >>
    /\ pairs' = << >>
    /\ died' = [i \in 1..NumBots |-> 0]
    /\ fresh' = {}
    /\ UNCHANGED <<last_health, iso>>

\* Arena.start (main.py line 99): on a new arena, or once more on an arena
\* whose round is over.
Start ==
    /\ pc \in {"idle", "over"}
    /\ \E sp \in Spawns :
          bots' = [i \in 1..NumBots |-> NewBot(StartCount + (i - 1), sp[i])]
    /\ shots' = << >>
    /\ ticks' = 0
    /\ bot_index_count' = StartCount + NumBots
    /\ pc' = "loop"
    /\ cur' = 0
    /\ UNCHANGED calls
    /\ created' = [i \in 1..NumBots |-> 0]
    /\ struck' = {}
    /\ killed0' = [i \in 1..NumBots |-> << >>]
    /\ turnCmd' = [i \in 1..NumBots |-> NoTurn]
    /\ upd' = NoUpdate
    /\ scanned' = NoScan
    /\ hits' = << >>
    /\ order' = << >>
    /\ pairs' = << >>
    /\ died' = [i \in 1..NumBots |-> 0]
    /\ fresh' = {}
    /\ UNCHANGED <<last_health, iso>>

\* main.py lines 89-98: the next round gets a new Arena (bot.py's counter is
\* a module global and stays).
NewArena ==
    /\ pc = "over"
    /\ bots' = << >>
    /\ shots' = << >>
    /\ ticks' = 0
    /\ pc' = "idle"
    /\ cur' = 0
    /\ calls' = 0
    /\ created' = << >>
    /\ struck' = {}
    /\ killed0' = << >>
    /\ turnCmd' = << >>
    /\ upd' = NoUpdate
    /\ scanned' = NoScan
    /\ hits' = << >>
    /\ order' = << >>
    /\ pairs' = << >>
    /\ died' = << >>
    /\ fresh' = {}
    /\ UNCHANGED bot_index_count
    /\ UNCHANGED <<last_health, iso>>

\* LoopCond without the tick ceiling.
LoopCondNoCeiling == alive_count(bots) > 1

\* main.py line 118: the condition of the round loop.
LoopCond == alive_count(bots) > 1 /\ ticks < MAX_TIME

\* main.py lines 118-119: the loop goes on and calls arena.update().
LoopEnter ==
    /\ pc = "loop"
    /\ LoopCond
    /\ pc' = "shots"
    /\ UNCHANGED <<bots, shots, ticks, bot_index_count, cur, calls,
                   created, struck, killed0, turnCmd, upd, scanned, hits,
                   order, pairs, died, fresh>>
    /\ UNCHANGED <<last_health, iso>>

\* main.py line 118: the loop ends.
LoopExit ==
    /\ pc = "loop"
    /\ ~LoopCond
    /\ pc' = "over"
    /\ UNCHANGED <<bots, shots, ticks, bot_index_count, cur, calls,
                   created, struck, killed0, turnCmd, upd, scanned, hits,
                   order, pairs, died, fresh>>
    /\ UNCHANGED <<last_health, iso>>

\* Arena.update, lines 166-175: the tick counter and the shots.
UpdateShots ==
    /\ pc = "shots"
    /\ ticks' = ticks + 1
    /\ shots' = MoveShots(shots)
    /\ pc' = IF NumBots = 0 THEN "loop" ELSE "bot"
    /\ cur' = 1
    /\ struck' = {}
    /\ killed0' = [i \in 1..NumBots |-> bots[i].killed]
    /\ hits' = << >>
    /\ order' = << >>
    /\ pairs' = << >>
    /\ fresh' = {}
    /\ UNCHANGED <<bots, bot_index_count, calls, created, turnCmd, upd,
                   scanned, died>>
    /\ UNCHANGED <<last_health, iso>>

\* Arena.update line 178, Bot.update lines 278-350: the physics of robot
\* cur, up to the call of its strategy (made only if it is active).
BotUpdate ==
    /\ pc = "bot"
    /\ LET b0 == bots[cur]
           b1 == Integrate(b0)
           b2 == DrainAcceleration(b1)
           b3 == DrainTurn(b2)
           b4 == DrainCannon(b3)
       IN  \E spin \in (IF b0.health <= 0 /\ b0.active THEN DeathSpins ELSE {0}) :
             LET b6 == BeforeWalls(b0, spin)
                 b7 == Physics(b0, spin)
             IN  /\ bots' = [bots EXCEPT ![cur] = b7]
                 /\ pc' = IF Invokes(b7) THEN "func" ELSE "collide"
                 /\ order' = Append(order, UpdateRecord(cur, ApplyArc(b4), spin, b7))
                 /\ died' = [died EXCEPT ![cur] =
                                @ + UpdateRecord(cur, ApplyArc(b4), spin, b7).dies]
                 /\ turnCmd' = [turnCmd EXCEPT ![cur] =
                                  TurnDrained(@, b0.angular_acceleration,
                                              b3.angular_velocity - b2.angular_velocity)]
                 /\ upd' = [i       |-> cur,
                            active0 |-> b0.active,
                            pending |-> <<b0.acceleration, b0.angular_acceleration,
                                          b0.cannon_acceleration>>,
                            heading |-> b1.direction,
                            dv      |-> VSub(b2.velocity, b1.velocity),
                            dw      |-> b3.angular_velocity - b2.angular_velocity,
                            dc      |-> b4.cannon - b3.cannon,
                            prewall |-> <<b6.position, b6.velocity>>,
                            midwall |-> <<WallX(b6).position, WallX(b6).velocity>>]
    /\ UNCHANGED <<shots, ticks, bot_index_count, cur, calls, created, struck,
                   killed0, scanned, hits, pairs, fresh>>
    /\ UNCHANGED <<last_health, iso>>

\* A handler call of the running strategy that changes robot cur to nb.
HandlerCall(nb) ==
    /\ pc = "func"
    /\ calls < MaxCalls
    /\ calls' = calls + 1
    /\ bots' = [bots EXCEPT ![cur] = nb]
    /\ UNCHANGED <<ticks, bot_index_count, pc, cur, struck, killed0, upd,
                   scanned, hits, order, pairs, died>>
    /\ UNCHANGED <<last_health, iso>>

\* Handler.accelerate
Accelerate(accel) ==
    /\ HandlerCall([bots[cur] EXCEPT !.acceleration = @ + accel])
    /\ UNCHANGED <<shots, created, turnCmd, fresh>>

\* Handler.turn
Turn(angle) ==
    /\ HandlerCall([bots[cur] EXCEPT !.angular_acceleration = @ + angle])
    /\ turnCmd' = [turnCmd EXCEPT ![cur] = TurnIssued(bots[cur], angle)]
    /\ UNCHANGED <<shots, created, fresh>>

\* Handler.rotate_cannon
RotateCannon(angle) ==
    /\ HandlerCall([bots[cur] EXCEPT !.cannon_acceleration = @ + angle])
    /\ UNCHANGED <<shots, created, turnCmd, fresh>>

\* SetArc that also sets the live scan arc.
SetArcLive(arc) ==
    /\ HandlerCall([bots[cur] EXCEPT !.target_arc = arc, !.scan_arc = arc])
    /\ UNCHANGED <<shots, created, turnCmd, fresh>>

\* Handler.set_arc
SetArc(arc) ==
    /\ HandlerCall([bots[cur] EXCEPT !.target_arc = arc])
    /\ UNCHANGED <<shots, created, turnCmd, fresh>>

\* Handler.scan: the strategy of robot cur scans.  A ZeroDivisionError leaves
\* the strategy, Bot.update, Arena.update and main: the program ends.
Scan ==
    /\ pc = "func"
    /\ \E r \in {scan(bots, cur)} :
          /\ scanned' = [i |-> cur, fault |-> r.fault,
                         distance |-> r.distance, index |-> r.index]
          /\ pc' = IF r.fault THEN "fault" ELSE pc
    /\ UNCHANGED <<bots, shots, ticks, bot_index_count, cur, calls,
                   created, struck, killed0, turnCmd, upd, hits, order, pairs,
                   died, fresh>>
    /\ UNCHANGED <<last_health, iso>>

\* ShootBot that never sets has_shot.
ShootBotNoFlag(b) ==
    IF ~b.has_shot
    THEN [b EXCEPT !.shots = b.shots + 1,
                   !.temperature = b.temperature + HEAT_PER_SHOT]
    ELSE b

\* Handler.shoot, lines 187-191, on robot b: the robot after the call.
ShootBot(b) ==
    IF ~b.has_shot
    THEN [b EXCEPT !.shots = b.shots + 1,
                   !.temperature = b.temperature + HEAT_PER_SHOT,
                   !.has_shot = TRUE]
    ELSE b

\* Handler.shoot with Arena.add_shot
Shoot ==
    /\ HandlerCall(ShootBot(bots[cur]))
    /\ shots' = IF ~bots[cur].has_shot THEN Append(shots, Shot(bots[cur])) ELSE shots
    /\ created' = IF ~bots[cur].has_shot THEN [created EXCEPT ![cur] = @ + 1]
                  ELSE created
    /\ fresh' = IF ~bots[cur].has_shot THEN fresh \cup {Shot(bots[cur])} ELSE fresh
    /\ UNCHANGED turnCmd

\* Bot.update, lines 353-356: the strategy returns.
FuncReturn ==
    /\ pc = "func"
    /\ bots' = [bots EXCEPT ![cur] = AfterFunc(@)]
    /\ pc' = "collide"
    /\ scanned' = NoScan
    /\ UNCHANGED <<shots, ticks, bot_index_count, cur, calls,
                   created, struck, killed0, turnCmd, upd, hits, order, pairs,
                   died, fresh>>
    /\ UNCHANGED <<last_health, iso>>

\* Arena.update, lines 180-231: robot cur against every other robot, then
\* against every shot; then the next robot, or the end of the tick.
Collisions ==
    /\ pc = "collide"
    /\ LET st == HitAll([bots   |-> CollideAll(bots, cur, 1),
                         shots  |-> << >>,
                         struck |-> struck,
                         hits   |-> hits],
                        shots, cur)
       IN  /\ bots' = st.bots
           /\ shots' = st.shots
           /\ struck' = st.struck
           /\ hits' = st.hits
    /\ pairs' = CollideLog(bots, cur, 1, pairs)
    /\ IF cur < NumBots
       THEN pc' = "bot" /\ cur' = cur + 1
       ELSE pc' = "loop" /\ cur' = 0
    /\ UNCHANGED <<ticks, bot_index_count, calls, created, killed0, turnCmd, upd,
                   scanned, order, died, fresh>>
    /\ UNCHANGED <<last_health, iso>>

Next ==
    \/ Start
    \/ NewArena
    \/ LoopEnter
    \/ LoopExit
    \/ UpdateShots
    \/ BotUpdate
    \/ \E accel \in AccelArgs : Accelerate(accel)
    \/ \E angle \in TurnArgs : Turn(angle)
    \/ \E angle \in CannonArgs : RotateCannon(angle)
    \/ \E arc \in ArcArgs : SetArc(arc)
    \/ Shoot
    \/ Scan
    \/ FuncReturn
    \/ Collisions

Spec == Init /\ [][Next]_vars

----------------------------------------------------------------------------
(* Single operations on given arenas *)

\* A robot as it stands in a running round: at position p, heading dir,
\* with scan arc arc and velocity v, alive or a corpse.
BotAt(idx, p, dir, arc, v, alive) ==
    [NewBot(idx, [position |-> p, direction |-> dir, angular_velocity |-> 0])
        EXCEPT !.scan_arc = arc,
               !.target_arc = arc,
               !.velocity = v,
               !.active = alive,
               !.health = IF alive THEN MAX_HEALTH ELSE 0,
               !.temperature = IF alive THEN NORMAL_TEMPERATURE
                               ELSE MAX_TEMPERATURE]

\* Where the first robot of a pair stands.
PairPosition == Vector(24, 12)

\* b.position - c.position for the pairs: of length RADIUS (twice), 16, 10
\* (twice), 2 * RADIUS (twice), 2, 26 and 0.
PairOffsets ==
    { Vector(RADIUS, 0), Vector(-RADIUS, 0), Vector(0, -16), Vector(-6, -8),
      Vector(6, -8), Vector(-12, -16), Vector(-2 * RADIUS, 0), Vector(-2, 0),
      Vector(-26, 0), Vector(0, 0) }

\* The velocities of the pairs; (7, 1) and (3, 4) have whole-number
\* components along and across the axes (-6, -8) and (-12, -16).
PairVelocities ==
    { Vector(0, 0), Vector(4, 0), Vector(-3, 2), Vector(7, 1), Vector(3, 4) }

\* The variables that a single operation neither reads nor writes.
RestIdle ==
    /\ shots = << >>
    /\ ticks = 1
    /\ bot_index_count = NumBots
    /\ calls = 0
    /\ created = [i \in 1..NumBots |-> 0]
    /\ struck = {}
    /\ killed0 = [i \in 1..NumBots |-> << >>]
    /\ turnCmd = [i \in 1..NumBots |-> NoTurn]
    /\ upd = NoUpdate
    /\ scanned = NoScan
    /\ hits = << >>
    /\ order = << >>
    /\ pairs = << >>
    /\ died = [i \in 1..NumBots |-> 0]
    /\ fresh = {}
    /\ last_health = 0
    /\ iso = NoIso

\* Two robots about to be examined by the collision loop of the first, and a
\* third one.
InitPair ==
    /\ \E off \in PairOffsets, v \in PairVelocities, w \in PairVelocities :
          bots = << BotAt(0, PairPosition, 0, MIN_SCAN_ARC, v, TRUE),
                    BotAt(1, VSub(PairPosition, off), 0, MIN_SCAN_ARC, w, TRUE),
                    BotAt(2, Vector(ARENA_WIDTH - RADIUS, ARENA_HEIGHT - RADIUS),
                          0, MIN_SCAN_ARC, Vector(0, 0), TRUE) >>
    /\ pc = "pair"
    /\ cur = 1
    /\ RestIdle

\* Arena.update, lines 182-211, for b the first robot and c the second.
Resolve ==
    /\ pc = "pair"
    /\ bots' = CollidePair(bots, 1, 2)
    /\ upd' = [i |-> 1, before |-> <<bots[1].position, bots[2].position>>]
    /\ pairs' = CollideLog(bots, 1, 2, pairs)
    /\ pc' = "paired"
    /\ UNCHANGED <<shots, ticks, bot_index_count, cur, calls, created, struck,
                   killed0, turnCmd, scanned, hits, order, died, fresh>>
    /\ UNCHANGED <<last_health, iso>>

\* Where the three robots of a scanned arena stand: from (10, 20), the
\* others are at distance 20, VISION_RANGE, 35 and VISION_RANGE + RADIUS on
\* the x axis, and off it.
ScanPositions ==
    << { Vector(10, 20), Vector(30, 20), Vector(10, 10) },
       { Vector(10, 20), Vector(30, 20), Vector(40, 20), Vector(45, 20),
         Vector(50, 30) },
       { Vector(30, 20), Vector(50, 20), Vector(30, 30), Vector(40, 20),
         Vector(50, 30) } >>

ScanHeadings == {0, PI}

ScanArcs == {MIN_SCAN_ARC, PI, TAU}

\* Three robots, alive or not, and the strategy of a live one running.
InitScan ==
    /\ \E p1 \in ScanPositions[1], p2 \in ScanPositions[2],
          p3 \in ScanPositions[3], dir \in ScanHeadings, arc \in ScanArcs,
          alive \in [1..NumBots -> BOOLEAN] :
          bots = << BotAt(0, p1, dir, arc, Vector(0, 0), alive[1]),
                    BotAt(1, p2, dir, arc, Vector(0, 0), alive[2]),
                    BotAt(2, p3, dir, arc, Vector(0, 0), alive[3]) >>
    /\ pc = "func"
    /\ cur \in 1..NumBots
    /\ bots[cur].active
    /\ RestIdle

InitCases == InitPair \/ InitScan

NextCases == Resolve \/ Scan

SpecCases == InitCases /\ [][NextCases]_vars

----------------------------------------------------------------------------
(* Projectiles in flight, update() being called for as long as there are any *)

\* Projectiles of robot 0: inside the arena and flying towards a robot, on
\* the left wall flying out, outside flying out, outside flying in, inside
\* flying out through the bottom, and far inside.
FlightShots ==
    { [bot |-> 0, velocity |-> Vector(SHOT_SPEED, 0), position |-> Vector(30, 12)],
      [bot |-> 0, velocity |-> Vector(-SHOT_SPEED, 0), position |-> Vector(0, 30)],
      [bot |-> 0, velocity |-> Vector(-SHOT_SPEED, 0), position |-> Vector(-3, 30)],
      [bot |-> 0, velocity |-> Vector(SHOT_SPEED, 0), position |-> Vector(-3, 30)],
      [bot |-> 0, velocity |-> Vector(6, -6), position |-> Vector(25, 5)],
      [bot |-> 0, velocity |-> Vector(0, SHOT_SPEED), position |-> Vector(30, 2)] }

\* Three robots at rest, apart from each other, whose strategies do nothing,
\* and two projectiles in flight at the start of a tick.
InitFlight ==
    /\ bots = << BotAt(0, Vector(12, 12), 0, MIN_SCAN_ARC, Vector(0, 0), TRUE),
                 BotAt(1, Vector(48, 12), 0, MIN_SCAN_ARC, Vector(0, 0), TRUE),
                 BotAt(2, Vector(30, 30), 0, MIN_SCAN_ARC, Vector(0, 0), TRUE) >>
    /\ \E s1 \in FlightShots, s2 \in FlightShots : shots = <<s1, s2>>
    /\ ticks = 0
    /\ bot_index_count = NumBots
    /\ pc = "shots"
    /\ cur = 0
    /\ calls = 0
    /\ created = [i \in 1..NumBots |-> 0]
    /\ struck = {}
    /\ killed0 = [i \in 1..NumBots |-> << >>]
    /\ turnCmd = [i \in 1..NumBots |-> NoTurn]
    /\ upd = NoUpdate
    /\ scanned = NoScan
    /\ hits = << >>
    /\ order = << >>
    /\ pairs = << >>
    /\ died = [i \in 1..NumBots |-> 0]
    /\ fresh = {}
    /\ last_health = 0
    /\ iso = NoIso

\* The caller calls arena.update() once more (main.py line 119), here for as
\* long as a projectile is in flight.
UpdateAgain ==
    /\ pc = "loop"
    /\ shots # << >>
    /\ pc' = "shots"
    /\ UNCHANGED <<bots, shots, ticks, bot_index_count, cur, calls,
                   created, struck, killed0, turnCmd, upd, scanned, hits,
                   order, pairs, died, fresh>>
    /\ UNCHANGED <<last_health, iso>>

NextFlight ==
    \/ UpdateAgain
    \/ UpdateShots
    \/ BotUpdate
    \/ FuncReturn
    \/ Collisions

\* Control is inside update(), or at the loop with a projectile in flight.
Running ==
    \/ pc \in {"shots", "bot", "func", "collide"}
    \/ pc = "loop" /\ shots # << >>

\* Control moves on.  Every step of NextFlight starts where Running holds
\* and changes pc, and NextFlight can take a step wherever Running holds.
Proceed == Running /\ pc' \in {"shots", "bot", "func", "collide", "loop"}

\* The interpreter runs the next statement whenever there is one.
SpecFlight == InitFlight /\ [][NextFlight]_vars /\ WF_pc(Proceed)

----------------------------------------------------------------------------
(* bot/bigodines.py: what the strategy remembers, with "main.py bigodines  *)
(* bigodines bigodines" playing several rounds                             *)

\* bigodines, lines 54-55 and 83: the commands that depend on last_health,
\* for a robot that reads health from its handler and remembers the value
\* remembered: rotate_cannon(PI / 2) is called, the dodge block is entered.
BigodinesCommands(health, remembered) ==
    [ rotate |-> health > remembered,
      dodge  |-> health < remembered ]

\* Every robot of the first round just created, the module just loaded,
\* and the strategy of some robot being called.
InitMemory ==
    /\ bots = << BotAt(0, Vector(12, 12), 0, MIN_SCAN_ARC, Vector(0, 0), TRUE),
                 BotAt(1, Vector(48, 12), 0, MIN_SCAN_ARC, Vector(0, 0), TRUE),
                 BotAt(2, Vector(30, 30), 0, MIN_SCAN_ARC, Vector(0, 0), TRUE) >>
    /\ pc = "func"
    /\ cur \in 1..NumBots
    /\ RestIdle

\* bigodines(handler) for robot cur, as far as last_health goes: lines 49,
\* 54-55, 83 and 99.  Which commands it issues is recorded in iso.cmd; what
\* they do to the robot is what RotateCannon and Accelerate do.
Bigodines ==
    /\ pc = "func"
    /\ iso' = [i      |-> cur,
               cmd    |-> BigodinesCommands(bots[cur].health, last_health),
               alone  |-> BigodinesCommands(bots[cur].health, iso.store[cur]),
               store  |-> [iso.store EXCEPT ![cur] = bots[cur].health]]
    /\ last_health' = bots[cur].health
    /\ pc' = "called"
    /\ UNCHANGED <<bots, shots, ticks, bot_index_count, cur, calls, created, struck,
                   killed0, turnCmd, upd, scanned, hits, order, pairs, died,
                   fresh>>

\* Arena.update, lines 203-207 and 218-219: a robot loses health to a
\* collision or a projectile, and stays alive.
Harm ==
    /\ pc = "called"
    /\ \E i \in 1..NumBots :
          /\ bots[i].health > 1
          /\ bots' = [bots EXCEPT ![i].health = @ - 1]
    /\ UNCHANGED <<shots, ticks, bot_index_count, pc, cur, calls, created,
                   struck, killed0, turnCmd, upd, scanned, hits, order, pairs,
                   died, fresh, last_health, iso>>

\* Arena.update, line 178: the update of another robot calls its strategy.
CallNext ==
    /\ pc = "called"
    /\ cur' \in 1..NumBots
    /\ pc' = "func"
    /\ UNCHANGED <<bots, shots, ticks, bot_index_count, calls, created,
                   struck, killed0, turnCmd, upd, scanned, hits, order, pairs,
                   died, fresh, last_health, iso>>

\* main.py lines 89-99: the next round, with new robots; the functions,
\* loaded once in line 78, and their module stay.
NextRound ==
    /\ pc = "called"
    /\ bots' = [i \in 1..NumBots |->
                  BotAt(i - 1, bots[i].position, 0, MIN_SCAN_ARC, Vector(0, 0), TRUE)]
    /\ iso' = NoIso
    /\ cur' \in 1..NumBots
    /\ pc' = "func"
    /\ UNCHANGED <<shots, ticks, bot_index_count, calls, created, struck,
                   killed0, turnCmd, upd, scanned, hits, order, pairs, died,
                   fresh, last_health>>

NextMemory == Bigodines \/ Harm \/ CallNext \/ NextRound

SpecMemory == InitMemory /\ [][NextMemory]_vars

----------------------------------------------------------------------------
(* Properties *)

\* A tick (one Arena.update) has just been completed.
TickDone == pc = "loop" /\ ticks > 0

\* ceil(a / b) for a >= 0, b > 0
Ceil(a, b) == (a + b - 1) \div b

\* sign(p) * min(|p|, rate), written out.
Bounded(p, rate) == IF p > rate THEN rate ELSE IF p < -rate THEN -rate ELSE p

\* C1: after every completed tick, every robot has 0 <= health <= MAX_HEALTH.
C1_HealthInRange ==
    TickDone => \A i \in DOMAIN bots :
                    0 <= bots[i].health /\ bots[i].health <= MAX_HEALTH

\* C2: after every completed tick, every robot has
\* NORMAL_TEMPERATURE <= temperature <= MAX_TEMPERATURE.
C2_TemperatureInRange ==
    TickDone => \A i \in DOMAIN bots :
                    /\ NORMAL_TEMPERATURE <= bots[i].temperature
                    /\ bots[i].temperature <= MAX_TEMPERATURE

\* C3: an active robot with 0 < health <= SHOT_DAMAGE struck by a projectile
\* in a tick is inactive at the end of that tick, and the kill list of the
\* projectile's owner has grown by exactly one entry, the victim.
C3_KilledWithinTick ==
    TickDone => \A h \in struck :
                    LET v == h[1]
                        o == h[2]
                    IN  /\ ~bots[v].active
                        /\ Len(bots[o].killed) = Len(killed0[o]) + 1
                        /\ bots[o].killed[Len(bots[o].killed)] = bots[v].index

\* C4: in one strategy invocation only the first shoot() acts: it creates
\* one projectile, adds 1 to shots and HEAT_PER_SHOT to the temperature; no
\* other step of the invocation changes any of the three, a further shoot()
\* changes nothing at all, and every invocation starts able to fire.  So
\* shots always equals the number of projectiles the robot created.
C4_OneShotPerTick ==
    /\ [][pc = "func" =>
            LET b  == bots[cur]
                b2 == bots'[cur]
            IN  IF ~b.has_shot /\ b2.has_shot
                THEN /\ shots' = Append(shots, Shot(b))
                     /\ b2.shots = b.shots + 1
                     /\ b2.temperature = b.temperature + HEAT_PER_SHOT
                ELSE /\ shots' = shots
                     /\ b2.shots = b.shots
                     /\ b2.temperature = b.temperature
                     /\ (pc' = "func" => b2.has_shot = b.has_shot)]_vars
    /\ [][(Shoot /\ bots[cur].has_shot) => (bots' = bots /\ shots' = shots)]_vars
    /\ [][(Shoot /\ ~bots[cur].has_shot) => bots'[cur].has_shot]_vars
    /\ [][(pc # "func" /\ pc' = "func") => ~bots'[cur'].has_shot]_vars
    /\ [](\A i \in DOMAIN bots : bots[i].shots = created[i])

\* C4's case: robot 1 called shoot() twice in its first invocation.
C4_Witness ==
    /\ pc = "func" /\ ticks = 1 /\ cur = 1 /\ calls = 2
    /\ bots[1].has_shot /\ created[1] = 1 /\ Len(shots) = 1
    /\ bots[1].acceleration = 0 /\ bots[1].angular_acceleration = 0
    /\ bots[1].cannon_acceleration = 0 /\ bots[1].target_arc = MIN_SCAN_ARC

\* C5: in every state every robot has MIN_SCAN_ARC <= scan_arc <= TAU.
C5_ScanArcInRange ==
    \A i \in DOMAIN bots :
        MIN_SCAN_ARC <= bots[i].scan_arc /\ bots[i].scan_arc <= TAU

\* C5's case: a request above TAU has been applied, clamped.
C5_Witness == \E i \in DOMAIN bots : bots[i].scan_arc = TAU

\* C6: within a round an inactive robot never becomes active again, and
\* alive_count never increases.
C6_DeadIsAbsorbing ==
    [][(pc \notin {"idle", "over"}) =>
          /\ \A i \in DOMAIN bots : ~bots[i].active => ~bots'[i].active
          /\ alive_count(bots') <= alive_count(bots)]_vars

\* C6's case: a robot that was already inactive has been updated again.
C6_Witness == upd.i # 0 /\ ~upd.active0 /\ ~bots[upd.i].active

C8_TurnAcrossTicks ==
    \A i \in DOMAIN turnCmd :
        LET t == turnCmd[i]
            p == bots[i].angular_acceleration
        IN  (t.a # 0 /\ Abs(t.a) > MAX_TURN_RATE) =>
                /\ Abs(t.last) <= MAX_TURN_RATE
                /\ t.sum + p = t.a
                /\ (p = 0 => t.k = Ceil(Abs(t.a), MAX_TURN_RATE))
                /\ (p # 0 => t.k < Ceil(Abs(t.a), MAX_TURN_RATE))

\* C8's case: a turn larger than the rate has been used up.
C8_Witness ==
    \E i \in DOMAIN turnCmd :
        /\ Abs(turnCmd[i].a) > MAX_TURN_RATE
        /\ turnCmd[i].k > 1
        /\ bots[i].angular_acceleration = 0

\* C9: a Bot.update applies sign(pending) * min(|pending|, rate) of each
\* accumulator and takes exactly that off the accumulator; and no step but a
\* handler call makes an accumulator grow in magnitude or change sign.
C9_Drain ==
    /\ [][pc = "bot" =>
            LET b  == bots[cur]
                b2 == bots'[cur]
                u  == upd'
            IN  /\ u.dv = VPolar(u.heading, Bounded(b.acceleration, MAX_ACCELERATION))
                /\ u.dw = Bounded(b.angular_acceleration, MAX_TURN_RATE)
                /\ u.dc = Bounded(b.cannon_acceleration, MAX_CANNON_TURN_RATE)
                /\ b2.acceleration =
                      b.acceleration - Bounded(b.acceleration, MAX_ACCELERATION)
                /\ b2.angular_acceleration =
                      b.angular_acceleration
                      - Bounded(b.angular_acceleration, MAX_TURN_RATE)
                /\ b2.cannon_acceleration =
                      b.cannon_acceleration
                      - Bounded(b.cannon_acceleration, MAX_CANNON_TURN_RATE)]_vars
    /\ [][(pc # "func" /\ bots # << >> /\ bots' # << >>) =>
            \A i \in DOMAIN bots :
                /\ Abs(bots'[i].acceleration) <= Abs(bots[i].acceleration)
                /\ Sgn(bots'[i].acceleration) \in {0, Sgn(bots[i].acceleration)}
                /\ Abs(bots'[i].angular_acceleration)
                      <= Abs(bots[i].angular_acceleration)
                /\ Sgn(bots'[i].angular_acceleration)
                      \in {0, Sgn(bots[i].angular_acceleration)}
                /\ Abs(bots'[i].cannon_acceleration)
                      <= Abs(bots[i].cannon_acceleration)
                /\ Sgn(bots'[i].cannon_acceleration)
                      \in {0, Sgn(bots[i].cannon_acceleration)}]_vars

\* C9's case: an update drained accumulators holding more than their rates,
\* one of them negative.
C9_Witness ==
    /\ upd.i # 0
    /\ upd.pending[1] > MAX_ACCELERATION
    /\ upd.pending[3] < -MAX_CANNON_TURN_RATE

\* The wall step of one axis: from position p and velocity v to p2 and v2.
DoesWallAxis(lo, hi, p, v, p2, v2) ==
    IF p < lo THEN p2 = lo /\ v2 = -v
    ELSE IF p > hi THEN p2 = hi /\ v2 = -v
    ELSE p2 = p /\ v2 = v

\* C10: a coordinate beyond a wall boundary is set to the boundary and that
\* axis's velocity component negated, the other axis's coordinate and
\* component unchanged; within the boundaries nothing changes.
C10_WallCollision ==
    (pc \in {"func", "collide"}) =>
        LET p0 == upd.prewall[1]
            v0 == upd.prewall[2]
            p1 == upd.midwall[1]
            v1 == upd.midwall[2]
            p2 == bots[cur].position
            v2 == bots[cur].velocity
        IN  /\ DoesWallAxis(RADIUS, ARENA_WIDTH - RADIUS, p0.x, v0.x, p1.x, v1.x)
            /\ p1.y = p0.y /\ v1.y = v0.y
            /\ DoesWallAxis(RADIUS, ARENA_HEIGHT - RADIUS, p1.y, v1.y, p2.y, v2.y)
            /\ p2.x = p1.x /\ v2.x = v1.x

\* C10's case: a robot moving with both components non-zero hit the left wall.
C10_Witness ==
    /\ pc \in {"func", "collide"}
    /\ upd.prewall[1].x < RADIUS
    /\ upd.prewall[2].x < 0
    /\ upd.prewall[2].y # 0
    /\ bots[cur].position.x = RADIUS

\* C11: one collision resolution of two robots whose centres are at a
\* distance d with 0 < d <= 2 * RADIUS leaves the centres exactly 2 * RADIUS
\* apart, each robot moved by (2 * RADIUS - d) / 2 along the line of the
\* centres, the two in opposite directions.  (The distances of the pairs
\* are whole numbers, so d is Sqrt of its square.)
C11_Separation ==
    pc = "paired" =>
        LET b0 == upd.before[1]
            c0 == upd.before[2]
            b1 == bots[1].position
            c1 == bots[2].position
            axis == VSub(b0, c0)
            d == Sqrt(VDot(axis, axis))
            moved == VSub(b1, b0)
        IN  (0 < VDot(axis, axis) /\ VDot(axis, axis) <= (2 * RADIUS) * (2 * RADIUS)) =>
                /\ VDot(VSub(b1, c1), VSub(b1, c1)) = (2 * RADIUS) * (2 * RADIUS)
                /\ VSub(c1, c0) = Vector(-moved.x, -moved.y)
                /\ 4 * VDot(moved, moved) = (2 * RADIUS - d) * (2 * RADIUS - d)
                /\ moved.x * axis.y - moved.y * axis.x = 0
                /\ VDot(moved, axis) >= 0

\* C11's case: centres RADIUS apart on a diagonal axis, now 2 * RADIUS apart.
C11_Witness ==
    /\ pc = "paired"
    /\ VSub(upd.before[1], upd.before[2]) = Vector(-6, -8)
    /\ VSub(bots[1].position, bots[2].position) = Vector(-12, -16)

\* C12: after every start(), a repeated one on the same arena included, and
\* after every step of every update(), the robot at position i of the list
\* has index i: the indices are 0 .. N-1, each once.
C12_Indices ==
    /\ bots # << >> => Len(bots) = NumBots
    /\ \A i \in DOMAIN bots : bots[i].index = i - 1

\* C12's case: start() has just been called again on an arena whose
\* strategies had made calls in a round before (no tick of this round yet).
C12_Witness ==
    /\ pc = "loop" /\ ticks = 0 /\ calls = MaxCalls
    /\ bots[NumBots].index = NumBots - 1

\* C13: a set_arc(w) changes only the requested arc: the live scan_arc and
\* what scan() returns stay as they are during the strategy's invocation and
\* for the rest of the tick (only a robot's own Bot.update changes its
\* scan_arc).  When the strategy returns, the request, which is the last w,
\* is clamped to [MIN_SCAN_ARC, TAU]; nothing changes it until the robot's
\* Bot.update of the next tick makes it the live scan_arc, before the
\* strategy is invoked.
C13_ArcLatency ==
    /\ [][(pc = "func" /\ pc' = "func") =>
            /\ bots'[cur].scan_arc = bots[cur].scan_arc
            /\ scan(bots', cur) = scan(bots, cur)]_vars
    /\ [][(pc \in {"func", "collide", "loop", "shots"}) =>
            (\A i \in DOMAIN bots : bots'[i].scan_arc = bots[i].scan_arc)]_vars
    /\ [][pc = "bot" =>
            /\ bots'[cur].scan_arc = bots[cur].target_arc
            /\ (\A i \in DOMAIN bots \ {cur} :
                    bots'[i].scan_arc = bots[i].scan_arc)]_vars
    /\ [][(pc = "func" /\ pc' = "collide") =>
            LET w == bots[cur].target_arc
            IN  bots'[cur].target_arc =
                    IF w < MIN_SCAN_ARC THEN MIN_SCAN_ARC
                    ELSE IF w > TAU THEN TAU ELSE w]_vars
    /\ [][pc = "func" =>
            (\A i \in DOMAIN bots \ {cur} :
                bots'[i].target_arc = bots[i].target_arc)]_vars
    /\ [][(pc \in {"bot", "collide", "loop", "shots"}) =>
            (\A i \in DOMAIN bots : bots'[i].target_arc = bots[i].target_arc)]_vars

\* C13's case: a robot that asked for more than TAU in one tick and for less
\* than MIN_SCAN_ARC in the next scans with TAU in that next tick.
C13_Witness ==
    /\ pc = "func" /\ ticks >= 2
    /\ bots[cur].scan_arc = TAU
    /\ bots[cur].target_arc = 0

\* The acceptance test of the scan for the robot at position j, seen from
\* the scanning robot at position i: another robot, active, with
\* d - RADIUS <= VISION_RANGE, at an angle from the cannon of at most
\* (scan_arc / 2 + atan2(RADIUS, d)) mod PI.
Qualifies(bs, i, j) ==
    LET to == VSub(bs[j].position, bs[i].position)
        heading == bs[i].direction + bs[i].cannon
    IN  /\ j # i
        /\ bs[j].active
        /\ VDot(to, to) <= (VISION_RANGE + RADIUS) * (VISION_RANGE + RADIUS)
        /\ VDot(to, to) # 0
        /\ VAngle(Vector(Cos1000(heading), Sin1000(heading)), to)
              <= (RDiv(bs[i].scan_arc * FINE_PI, 2 * PI)
                  + Atan2(RADIUS * 100, VLength(to))) % FINE_PI

\* scan() has returned to the strategy of the robot at position scanned.i.
Scanned == scanned.i # 0 /\ ~scanned.fault

\* C14: when no other robot qualifies as a target (none active, none in
\* range, none inside the acceptance angle), a scan() that returns returns
\* exactly (VISION_RANGE, -1).
C14_NoTarget ==
    (Scanned /\ ~\E j \in DOMAIN bots : Qualifies(bots, scanned.i, j)) =>
        /\ scanned.distance = VISION_RANGE * 100
        /\ scanned.index = -1

\* C14's case: the only other active robot is within VISION_RANGE, but
\* outside the acceptance angle; the scan returned (VISION_RANGE, -1).
C14_Witness ==
    /\ Scanned
    /\ scanned.distance = VISION_RANGE * 100 /\ scanned.index = -1
    /\ \E j \in DOMAIN bots \ {scanned.i} :
          /\ bots[j].active
          /\ \A k \in DOMAIN bots \ {scanned.i, j} : ~bots[k].active
          /\ VDot(VSub(bots[j].position, bots[scanned.i].position),
                  VSub(bots[j].position, bots[scanned.i].position))
                < VISION_RANGE * VISION_RANGE
          /\ ~Qualifies(bots, scanned.i, j)

\* C15: no scan() raises: a strategy's scan() always returns a pair
\* (distance, index), also with another active robot at the scanning
\* robot's own position, and the round goes on.
C15_ScanNoFault ==
    /\ pc # "fault"
    /\ scanned.i # 0 => ~scanned.fault

\* C16: whatever state start() is called in (an arena never used, or one
\* with the corpses and the projectiles of a finished round), after it
\* ticks = 0, there is no projectile, and there are exactly N robots, each
\* active, with health MAX_HEALTH, temperature NORMAL_TEMPERATURE, velocity
\* zero, the three accumulators zero, shots = 0, no kill and no killer.
C16_StartResets ==
    [][(pc \in {"idle", "over"} /\ pc' = "loop") =>
          /\ ticks' = 0
          /\ shots' = << >>
          /\ Len(bots') = Len(Functions)
          /\ \A i \in DOMAIN bots' :
                LET b == bots'[i]
                IN  /\ b.active
                    /\ b.health = MAX_HEALTH
                    /\ b.temperature = NORMAL_TEMPERATURE
                    /\ b.velocity = Vector(0, 0)
                    /\ b.acceleration = 0
                    /\ b.angular_acceleration = 0
                    /\ b.cannon_acceleration = 0
                    /\ b.shots = 0
                    /\ b.killed = << >>
                    /\ b.killed_by = None]_vars

\* C16's case: start() has been called on an arena that had had a round (its
\* strategies had made a call), and the arena is as new.
C16_Witness ==
    /\ pc = "loop" /\ ticks = 0 /\ calls >= 1
    /\ shots = << >>
    /\ \A i \in DOMAIN bots :
          bots[i].active /\ bots[i].health = MAX_HEALTH /\ bots[i].shots = 0

\* C17: within one Arena.update no collision is resolved before every
\* robot's Bot.update of the tick has been made: the collision handling of
\* the robot at position cur changes the position, velocity, health and
\* temperature of no robot whose own update is still to come in the tick.
C17_CollisionsAfterUpdates ==
    [][pc = "collide" =>
          \A j \in DOMAIN bots :
              j > cur =>
                  /\ bots'[j].position = bots[j].position
                  /\ bots'[j].velocity = bots[j].velocity
                  /\ bots'[j].health = bots[j].health
                  /\ bots'[j].temperature = bots[j].temperature]_vars

\* C18: a projectile hit credits a kill (the victim's killed_by set to the
\* projectile's owner, the victim appended to the owner's kill list) only
\* when the victim was active with health > 0 just before the hit and has
\* health <= 0 just after it; a hit on a robot whose health was already
\* <= 0 credits nothing.
C18_KillCredit ==
    \A n \in DOMAIN hits :
        LET h == hits[n]
        IN  (h.kills1 # h.kills0 \/ h.after.killed_by # h.before.killed_by) =>
                /\ h.before.active
                /\ h.before.health > 0
                /\ h.after.health <= 0

\* C19: a projectile that hits an inactive robot leaves its health, its
\* temperature and its velocity as they were and adds
\* |projectile velocity| * SHOT_IMPACT_ANG to its angular velocity.
C19_CorpseHit ==
    \A n \in DOMAIN hits :
        LET h == hits[n]
        IN  ~h.before.active =>
                /\ h.after.health = h.before.health
                /\ h.after.temperature = h.before.temperature
                /\ h.after.velocity = h.before.velocity
                /\ h.after.angular_velocity =
                      h.before.angular_velocity
                      + RDiv(Frac(h.speed, SHOT_IMPACT_ANG), 100)

\* The square of the distance between the robots at positions i and j.
Dist2(bs, i, j) ==
    VDot(VSub(bs[j].position, bs[i].position), VSub(bs[j].position, bs[i].position))

\* C20: a scan() that returns returns the nearest of the robots that
\* qualify (other, active, d - RADIUS <= VISION_RANGE, inside the acceptance
\* angle), the first of the robot list among equally near ones, with its
\* distance and index; so a sole qualifying robot with
\* VISION_RANGE <= d <= VISION_RANGE + RADIUS is returned with its index.  It
\* returns (VISION_RANGE, -1) if none qualifies, and never the index of the
\* scanning robot or of an inactive one.
C20_ScanNearest ==
    Scanned =>
        LET i == scanned.i
            Q == {j \in DOMAIN bots : Qualifies(bots, i, j)}
        IN  IF Q = {}
            THEN scanned.index = -1 /\ scanned.distance = VISION_RANGE * 100
            ELSE \E j \in Q :
                    /\ \A k \in Q :
                          \/ Dist2(bots, i, j) < Dist2(bots, i, k)
                          \/ Dist2(bots, i, j) = Dist2(bots, i, k) /\ j <= k
                    /\ scanned.index = bots[j].index
                    /\ scanned.distance = VLength(VSub(bots[j].position,
                                                       bots[i].position))

\* The angle, in 1/128 of a turn, between the cannon of the robot at
\* position i and the direction from it to the robot at position j (which
\* is not at the same place).
Bearing(bs, i, j) ==
    VAngle(Vector(Cos1000(bs[i].direction + bs[i].cannon),
                  Sin1000(bs[i].direction + bs[i].cannon)),
           VSub(bs[j].position, bs[i].position))

\* An active opponent of the robot at position i, nearer than VISION_RANGE
\* and not at the same place.
InRange(bs, i, j) ==
    /\ j # i
    /\ bs[j].active
    /\ 0 < Dist2(bs, i, j)
    /\ Dist2(bs, i, j) < VISION_RANGE * VISION_RANGE

\* C21: an active opponent in range whose bearing is within scan_arc / 2 of
\* the cannon's direction is detectable: a scan() that returns finds a robot
\* when there is one; with scan_arc = TAU that is every active opponent in
\* range; and a robot that qualifies qualifies with every larger scan_arc.
C21_ArcIsWidth ==
    /\ Scanned =>
          ((\E j \in DOMAIN bots :
                /\ InRange(bots, scanned.i, j)
                /\ Bearing(bots, scanned.i, j)
                      <= RDiv(bots[scanned.i].scan_arc * FINE_PI, 2 * PI))
            => scanned.index # -1)
    /\ \A i \in DOMAIN bots : \A j \in DOMAIN bots : \A arc \in ScanArcs :
          (/\ InRange(bots, i, j)
           /\ arc >= bots[i].scan_arc
           /\ Qualifies(bots, i, j))
            => Qualifies([bots EXCEPT ![i].scan_arc = arc], i, j)

\* C22: in every Arena.update the robots are updated in spawn order, each
\* once; the strategy of a robot is called in its update exactly when the
\* robot is active after its death check, so never for a robot that has
\* died, in that tick or a later one.
C22_UpdateOrder ==
    /\ Len(order) <= NumBots
    /\ \A k \in DOMAIN order :
          /\ order[k].i = k
          /\ order[k].invoked = order[k].active
    /\ TickDone => Len(order) = NumBots
    /\ pc = "bot" => Len(order) = cur - 1
    /\ pc = "func" =>
          /\ Len(order) = cur
          /\ order[cur].invoked
          /\ bots[cur].active
          /\ died[cur] = 0
    /\ pc = "collide" => Len(order) = cur

\* C22's case: a tick in which the strategy of one robot was called and
\* that of another, a corpse, was not.
C22_Witness ==
    /\ TickDone
    /\ \E k \in DOMAIN order : order[k].invoked
    /\ \E k \in DOMAIN order : ~order[k].invoked /\ died[k] = 1

\* C23: in one tick no pair of robots is resolved more than once (the
\* collision hooks of a pair run once, the collision damage is applied once
\* per robot), whichever of the two the collision loop is running for; and
\* two robots at the same place are never resolved.
C23_PairOnce ==
    /\ \A k \in DOMAIN pairs : \A l \in DOMAIN pairs :
          k # l => {pairs[k].b, pairs[k].c} # {pairs[l].b, pairs[l].c}
    /\ \A k \in DOMAIN pairs :
          pairs[k].before[1].position # pairs[k].before[2].position

\* C24: a robot-robot collision changes neither the health nor the
\* temperature of a participant that is inactive.
C24_CorpseUntouched ==
    \A k \in DOMAIN pairs : \A n \in 1..2 :
        ~pairs[k].before[n].active =>
            /\ pairs[k].after[n].health = pairs[k].before[n].health
            /\ pairs[k].after[n].temperature = pairs[k].before[n].temperature

\* C25: a robot-robot collision of robots with angular velocities wb and
\* wc leaves them with wb - 2 * wc and wc - 2 * wb.
C25_AngularExchange ==
    \A k \in DOMAIN pairs :
        LET wb == pairs[k].before[1].angular_velocity
            wc == pairs[k].before[2].angular_velocity
        IN  /\ pairs[k].after[1].angular_velocity = wb - 2 * wc
            /\ pairs[k].after[2].angular_velocity = wc - 2 * wb

\* The projection of v onto the axis a has whole-number coordinates, so
\* the integer arithmetic of the model computes it exactly.
WholeOn(v, a) ==
    /\ (VDot(v, a) * a.x) % VDot(a, a) = 0
    /\ (VDot(v, a) * a.y) % VDot(a, a) = 0

\* The component of v across the axis a, times the length of a.
Across(v, a) == v.x * a.y - v.y * a.x

\* C26: a robot-robot collision leaves the sum of the two velocities as it
\* was; b's component along the collision axis becomes what c's was and c's
\* what b's was, and the components across the axis stay (stated where the
\* projections are whole numbers).
C26_VelocityExchange ==
    \A k \in DOMAIN pairs :
        LET a   == VSub(pairs[k].before[1].position, pairs[k].before[2].position)
            vb  == pairs[k].before[1].velocity
            vc  == pairs[k].before[2].velocity
            vb2 == pairs[k].after[1].velocity
            vc2 == pairs[k].after[2].velocity
        IN  /\ VAdd(vb2, vc2) = VAdd(vb, vc)
            /\ (WholeOn(vb, a) /\ WholeOn(vc, a)) =>
                  /\ VDot(vb2, a) = VDot(vc, a)
                  /\ VDot(vc2, a) = VDot(vb, a)
                  /\ Across(vb2, a) = Across(vb, a)
                  /\ Across(vc2, a) = Across(vc, a)

\* C26's case: a pair resolved along an axis that is parallel to neither
\* coordinate axis, with different components along it and a component
\* across it.
C26_Witness ==
    \E k \in DOMAIN pairs :
        LET a  == VSub(pairs[k].before[1].position, pairs[k].before[2].position)
            vb == pairs[k].before[1].velocity
            vc == pairs[k].before[2].velocity
        IN  /\ a.x # 0 /\ a.y # 0
            /\ WholeOn(vb, a) /\ WholeOn(vc, a)
            /\ VDot(vb, a) # VDot(vc, a)
            /\ Across(vb, a) # 0
            /\ pairs[k].after[1].velocity # vb

\* C27: within a round die() is called at most once per robot, and a robot
\* is inactive exactly if it has been called; a Bot.update calls it exactly
\* when it finds the robot active with health <= 0, and the death check
\* then leaves the robot inactive with health 0 and temperature
\* MAX_TEMPERATURE.
C27_DiesOnce ==
    /\ \A i \in DOMAIN died :
          /\ died[i] <= 1
          /\ (died[i] = 1) <=> ~bots[i].active
    /\ \A k \in DOMAIN order :
          /\ order[k].dies = (IF order[k].due THEN 1 ELSE 0)
          /\ order[k].due =>
                /\ order[k].dead = <<FALSE, 0, MAX_TEMPERATURE>>
                /\ ~order[k].active

\* C27's case: a robot whose die() was called in an earlier tick has been
\* updated again, and a robot has died in this tick.
C27_Witness ==
    /\ \E k \in DOMAIN order :
          order[k].dies = 0 /\ died[k] = 1 /\ ~order[k].active
    /\ \E k \in DOMAIN order : order[k].due /\ order[k].dies = 1

\* C28: a projectile that hits an inactive robot (one that died in its own
\* update of the same tick included) takes no health from it and credits no
\* kill: the kill list of the projectile's owner and the robot's killed_by
\* stay; the robot's angular velocity gains the impulse
\* |shot.velocity| * SHOT_IMPACT_ANG.
C28_CorpseBranch ==
    \A k \in DOMAIN hits :
        ~hits[k].before.active =>
            /\ hits[k].after.health = hits[k].before.health
            /\ hits[k].kills1 = hits[k].kills0
            /\ hits[k].after.killed_by = hits[k].before.killed_by
            /\ hits[k].after.killed = hits[k].before.killed
            /\ hits[k].after.angular_velocity =
                  hits[k].before.angular_velocity
                  + RDiv(Frac(hits[k].speed, SHOT_IMPACT_ANG), 100)

\* C28's case: a robot died in its own update of this tick and was hit by a
\* projectile later in the same tick.
C28_Witness ==
    \E k \in DOMAIN hits :
        /\ ~hits[k].before.active
        /\ hits[k].victim \in DOMAIN order
        /\ order[hits[k].victim].dies = 1
        /\ hits[k].after.angular_velocity # hits[k].before.angular_velocity

\* The elements of a sequence.
Range(seq) == {seq[k] : k \in DOMAIN seq}

\* C29: a projectile makes contact with one robot at most: the collision
\* pass in which it touches a robot removes it from the arena, one
\* projectile per hit, so that it is there for no robot processed later and
\* in no later tick; no projectile has two hits.
C29_OneContact ==
    /\ [][(pc = "collide") =>
            /\ Len(shots') = Len(shots) - (Len(hits') - Len(hits))
            /\ \A k \in DOMAIN hits' :
                  k > Len(hits) =>
                      /\ hits'[k].victim = cur
                      /\ hits'[k].shot \in Range(shots)
                      /\ hits'[k].shot \notin Range(shots')]_vars
    /\ [](\A k \in DOMAIN hits : \A l \in DOMAIN hits :
            k # l => hits[k].shot # hits[l].shot)

\* C29's case: a projectile has hit a robot while it was within RADIUS of a
\* robot processed later as well, and it is gone before that robot's turn.
C29_Witness ==
    \E k \in DOMAIN hits : \E j \in DOMAIN bots :
        /\ pc = "bot"
        /\ cur = hits[k].victim + 1
        /\ j >= cur
        /\ Touches(hits[k].shot, bots[j])
        /\ hits[k].shot \notin Range(shots)

\* The shot is in the arena rectangle, its border included.
InArena(s) ==
    /\ 0 <= s.position.x /\ s.position.x <= ARENA_WIDTH
    /\ 0 <= s.position.y /\ s.position.y <= ARENA_HEIGHT

\* The shot one velocity further.
Advanced(s) ==
    [s EXCEPT !.position = [x |-> s.position.x + s.velocity.x,
                            y |-> s.position.y + s.velocity.y]]

C31_InsideWalls ==
    TickDone =>
        \A i \in DOMAIN bots :
            /\ RADIUS <= bots[i].position.x
            /\ bots[i].position.x <= ARENA_WIDTH - RADIUS
            /\ RADIUS <= bots[i].position.y
            /\ bots[i].position.y <= ARENA_HEIGHT - RADIUS

\* C32: a projectile created in this tick does not hit the robot that
\* fired it, whatever the collision pass does to the robot after it fired.
C32_NoSelfHitAtOnce ==
    \A k \in DOMAIN hits :
        hits[k].shot \in fresh => hits[k].victim # hits[k].owner

\* C33: the commands a strategy issues for a robot are those it would issue
\* with a memory of that robot and that round alone (a store keyed by the
\* robot, starting anew with every round).
C33_MemoryIsolated == iso.i # 0 => iso.cmd = iso.alone

\* The entries <<k, n>> of the kill lists (entry n of robot k's list) that
\* name the robot with index idx.
KillEntries(idx) ==
    UNION { { <<k, n>> : n \in {m \in DOMAIN bots[k].killed :
                                    bots[k].killed[m] = idx} } :
            k \in DOMAIN bots }

\* C34: at every moment of a round each robot has at most one entry in all
\* the kill lists together, and it is in robot k's list exactly if its
\* killed_by is k.
C34_KillLists ==
    \A b \in DOMAIN bots :
        /\ Cardinality(KillEntries(bots[b].index)) <= 1
        /\ \A k \in DOMAIN bots :
              (\E n \in DOMAIN bots[k].killed : bots[k].killed[n] = bots[b].index)
                <=> bots[b].killed_by = bots[k].index

\* C35: while the strategy of a robot runs, and so whenever the robot
\* issues a command or creates a projectile, the health of the robot is
\* above 0.
C35_InvokedAlive == pc = "func" => bots[cur].health > 0

\* C36: an active robot with health <= 0 stays so, without its strategy
\* being started, until its next Bot.update; that update, the first of the
\* robot in the following tick, leaves it inactive and does not invoke its
\* strategy; and an inactive robot stays inactive until the round is over.
C36_DeathWithinOneTick ==
    [][(pc \notin {"idle", "over"}) =>
          \A i \in DOMAIN bots :
             /\ (bots[i].active /\ bots[i].health <= 0) =>
                   IF pc = "bot" /\ cur = i
                   THEN ~bots'[i].active /\ pc' = "collide" /\ cur' = i
                   ELSE /\ bots'[i].active /\ bots'[i].health <= 0
                        /\ (pc' = "func" /\ cur' = i) => (pc = "func" /\ cur = i)
             /\ ~bots[i].active =>
                   /\ ~bots'[i].active
                   /\ ~(pc' = "func" /\ cur' = i)]_vars

\* C36's case: a robot that ended the previous tick active with health <= 0
\* has been updated in this tick, is inactive and goes on to its collisions
\* with its strategy left out.
C36_Witness ==
    /\ ticks >= 2
    /\ pc = "collide"
    /\ \E k \in DOMAIN order :
          /\ order[k].i = cur
          /\ order[k].due
          /\ ~order[k].invoked
          /\ ~bots[cur].active

\* C37: the Bot.update of a robot that was inactive when it began adds
\* nothing from the accumulators to the velocity, the angular velocity or
\* the cannon angle.
C37_CorpseUncontrolled ==
    (upd.i # 0 /\ ~upd.active0) =>
        /\ upd.dv = [x |-> 0, y |-> 0]
        /\ upd.dw = 0
        /\ upd.dc = 0

\* C38: a scan() that returns a robot index returns a distance below
\* VISION_RANGE, and one that returns -1 returns VISION_RANGE; so the
\* distance is below VISION_RANGE exactly when a target was found.
C38_DistanceTellsTarget ==
    Scanned =>
        /\ scanned.index # -1 => scanned.distance < VISION_RANGE * 100
        /\ scanned.index = -1 => scanned.distance = VISION_RANGE * 100
        /\ (scanned.distance < VISION_RANGE * 100) <=> (scanned.index # -1)

\* C38's case: the scan has returned while another active robot stands at
\* VISION_RANGE exactly and inside the acceptance angle, the nearest that a
\* robot can be without being returned.
C38_Witness ==
    /\ Scanned
    /\ \E j \in DOMAIN bots :
          /\ Qualifies(bots, scanned.i, j)
          /\ Dist2(bots, scanned.i, j) = VISION_RANGE * VISION_RANGE
          /\ scanned.index # bots[j].index

\* C39: when a Bot.update has found the robot beyond a wall, the velocity
\* component on that axis right after the wall handling points into the
\* arena or is zero.
C39_BouncesInward ==
    (upd.i # 0 /\ pc \in {"func", "collide"} /\ cur = upd.i) =>
        /\ upd.prewall[1].x < RADIUS => upd.midwall[2].x >= 0
        /\ upd.prewall[1].x > ARENA_WIDTH - RADIUS => upd.midwall[2].x <= 0
        /\ upd.midwall[1].y < RADIUS => bots[cur].velocity.y >= 0
        /\ upd.midwall[1].y > ARENA_HEIGHT - RADIUS => bots[cur].velocity.y <= 0

====
